---- MODULE Spec2Model ----
(***************************************************************************)
(* Order-fulfilment pipeline of the e-commerce backend: createOrder        *)
(* (controllers/orderController.js), the stock update and event fan-out of *)
(* handleNewOrder (utils/realtimeEvents.js), the Coupon model methods, and  *)
(* the admin status / payment updates.                                      *)
(*                                                                         *)
(* Every handler is an async function: it runs atomically between two      *)
(* awaits and interleaves with other requests at each await. One action of *)
(* the model is one such segment; a storage write takes effect at the      *)
(* await that issues it.                                                    *)
(*                                                                         *)
(* Money is an integer; prices and percentages are chosen so that          *)
(* amount * discountValue / 100 is exact.                                   *)
(***************************************************************************)
EXTENDS Integers, Sequences, FiniteSets, TLC

\* ------------------------------------------------------------------ bounds
MaxStock == 2      \* initial stock of the tracked product is 1..MaxStock
MaxQty   == 2      \* a cart line orders 1..MaxQty units
MaxUpdates == 2    \* admin status / payment requests started in one behaviour
MaxChecks == 1     \* validateCoupon requests made in one behaviour
MaxSubs == 2       \* subscribe / unsubscribe requests made in one behaviour

\* ------------------------------------------------------------ vocabulary
Requests   == {1, 2}         \* request slots: createOrder handlers that can be in flight together
MaxCalls   == Cardinality(Requests)   \* createOrder calls made in one behaviour
Users      == {"u1", "u2"}
ProductIds == {"p1", "p2"}
CouponCode == "SAVE10"
NoCode     == ""
Undefined  == -1           \* an optional schema path that is not set
NullOrder  == 0            \* usageHistory.order: null

OrderStatuses   == {"pending", "confirmed", "processing", "shipped", "delivered", "cancelled", "returned"}
PaymentStatuses == {"pending", "paid", "failed", "refunded", "partially_refunded"}

VARIABLES
  product,    \* Product collection: id -> document
  coupon,     \* the Coupon document with code CouponCode
  orders,     \* Order collection, in creation order; an order's _id is its index
  req,        \* per request slot: position in createOrder and its locals
  outcome,    \* call number -> HTTP response given to the caller ("none" while running)
  calls,      \* number of createOrder calls started
  events,     \* events emitted through global.io, in emission order
  now,        \* clock
  stock0,     \* stock of every product before any call started
  callIn,     \* call number -> the request it carried (user, items, couponCode)
  adm,        \* per admin request slot: position in updateOrderStatus / updatePaymentStatus
  admLog,     \* answered admin requests, in the order their answers were sent
  checks,     \* answers of validateCoupon, in the order they were sent
  member,     \* per socket: the rooms it has joined (socket.rooms)
  inbox       \* per socket: its requests and the messages it was sent, in order

vars == <<product, coupon, orders, req, outcome, calls, events, now, stock0, callIn, adm, admLog, checks,
          member, inbox>>

\* ------------------------------------------------------------ JS helpers
Truthy(x) == x # Undefined /\ x # 0

Min(a, b) == IF a <= b THEN a ELSE b

RECURSIVE SumSeq(_)
SumSeq(s) == IF s = << >> THEN 0 ELSE Head(s) + SumSeq(Tail(s))

\* ------------------------------------------------------- Product methods
isInStockAlways(p, quantity) == TRUE

\* productSchema.methods.isInStock
isInStock(p, quantity) ==
  IF ~p.trackQuantity THEN TRUE
  ELSE IF p.allowBackorder THEN TRUE
  ELSE p.stock >= quantity

StockValidatorNoMin(stock) == TRUE

\* productSchema.stock: min [0, "Stock cannot be negative"], run by save()
StockValidator(stock) == stock >= 0

\* -------------------------------------------------------- Coupon methods
\* couponSchema.methods.isValid
isValid(c, t) ==
  /\ c.isActive
  /\ c.startDate <= t
  /\ c.endDate >= t
  /\ (~Truthy(c.usageLimit) \/ c.usedCount < c.usageLimit)

UserUsageCount(c, userId) ==
  Cardinality({k \in 1..Len(c.usageHistory) : c.usageHistory[k].user = userId})

canUserUseNoAllowList(c, userId, t) ==
  IF ~isValid(c, t) THEN FALSE
  ELSE IF Truthy(c.usageLimitPerUser) /\ UserUsageCount(c, userId) >= c.usageLimitPerUser THEN FALSE
  ELSE TRUE

\* couponSchema.methods.canUserUse
canUserUse(c, userId, t) ==
  IF ~isValid(c, t) THEN FALSE
  ELSE IF c.applicableUsers # {} /\ userId \notin c.applicableUsers THEN FALSE
  ELSE IF Truthy(c.usageLimitPerUser) /\ UserUsageCount(c, userId) >= c.usageLimitPerUser THEN FALSE
  ELSE TRUE

\* couponSchema.methods.calculateDiscount
calculateDiscount(c, orderAmount, t) ==
  IF ~isValid(c, t) THEN 0
  ELSE
    LET applicableAmount == IF c.restricted THEN 0 ELSE orderAmount
    IN  IF applicableAmount < c.minimumOrderAmount THEN 0
        ELSE
          LET base == IF c.discountType = "percentage"
                      THEN (applicableAmount * c.discountValue) \div 100
                      ELSE c.discountValue
              capped == IF Truthy(c.maximumDiscountAmount) /\ base > c.maximumDiscountAmount
                        THEN c.maximumDiscountAmount
                        ELSE base
          IN  Min(capped, applicableAmount)

\* ---------------------------------------------------------- Order model
\* orderSchema min validators (subtotal, discountAmount, totalAmount, item price and quantity)
OrderValid(doc) ==
  /\ doc.subtotal >= 0
  /\ doc.discountAmount >= 0
  /\ doc.totalAmount >= 0
  /\ \A k \in 1..Len(doc.items) : doc.items[k].price >= 0 /\ doc.items[k].quantity >= 1

StatusHistoryOnEverySave(history, status, isNew, statusModified) ==
  IF statusModified THEN Append(history, status) ELSE history

\* orderSchema.pre("save"): push the status when it was modified on an existing document
StatusHistoryOnSave(history, status, isNew, statusModified) ==
  IF statusModified /\ ~isNew THEN Append(history, status) ELSE history

\* ------------------------------------------------------------ Event bus
Ev(room, event, type, ref, a, b, call) ==
  [room |-> room, event |-> event, type |-> type, ref |-> ref, a |-> a, b |-> b, call |-> call]

\* emitAdminAnalytics
emitAdminAnalytics(log, type, ref, a, b, call) ==
  Append(log, Ev("admin_analytics", "analytics_update", type, ref, a, b, call))

\* emitStockUpdate
emitStockUpdate(log, productId, newStock, oldStock, call) ==
  Append(log, Ev("product_" \o productId, "stock_updated", "stock_updated", productId, oldStock, newStock, call))

\* emitLowStockAlert
emitLowStockAlert(log, productId, newStock, threshold, call) ==
  Append(log, Ev("admin_analytics", "low_stock_alert", "low_stock_alert", productId, newStock, threshold, call))

\* emitOrderUpdate: the user's room, then the admin_orders room
emitOrderUpdate(log, userId, type, orderId, old, new) ==
  log \o << Ev("user_orders_" \o userId, "order_updated", type, orderId, old, new, 0),
            Ev("admin_orders", "new_order_update", type, orderId, old, new, 0) >>

handleStockChangeAlertFirst(log, productId, oldStock, newStock, p, call) ==
  LET l1 == IF newStock <= p.lowStockThreshold /\ oldStock > p.lowStockThreshold
            THEN emitLowStockAlert(log, productId, newStock, p.lowStockThreshold, call)
            ELSE log
      l2 == emitStockUpdate(l1, productId, newStock, oldStock, call)
  IN  emitAdminAnalytics(l2, "stock_update", productId, oldStock, newStock, call)

\* handleStockChange
handleStockChange(log, productId, oldStock, newStock, p, call) ==
  LET l1 == emitStockUpdate(log, productId, newStock, oldStock, call)
      l2 == IF newStock <= p.lowStockThreshold /\ oldStock > p.lowStockThreshold
            THEN emitLowStockAlert(l1, productId, newStock, p.lowStockThreshold, call)
            ELSE l1
  IN  emitAdminAnalytics(l2, "stock_update", productId, oldStock, newStock, call)

\* ---------------------------------------------------------------- sockets
Sockets == {1, 2}          \* authenticated connections

\* socket.userId, socket.userRole: set from the token when the connection is made
SocketUser(s) == IF s = 1 THEN "u1" ELSE "u2"
SocketRole(s) == IF s = 1 THEN "customer" ELSE "admin"

\* one entry of a socket's timeline: a request it made, a message sent to it alone
\* (kind "reply"), or an event of a room (id is the event's position in events)
Msg(kind, name, room, id) == [kind |-> kind, name |-> name, room |-> room, id |-> id]

RECURSIVE Ascending(_)
Ascending(S) ==
  IF S = {} THEN << >>
  ELSE LET x == CHOOSE y \in S : \A z \in S : y <= z
       IN  <<x>> \o Ascending(S \ {x})

\* io.to(room).emit(...): every event appended to the log goes to the sockets that are
\* in its room at that moment
Deliver(box, mem, old, new) ==
  [s \in Sockets |->
     LET ids == Ascending({i \in (Len(old) + 1)..Len(new) : new[i].room \in mem[s]})
     IN  box[s] \o [k \in 1..Len(ids) |-> Msg("event", new[ids[k]].event, new[ids[k]].room, ids[k])]]

\* ------------------------------------------------------------ createOrder
IdleReq ==
  [pc |-> "idle", call |-> 0, user |-> "u1", items |-> << >>, couponCode |-> NoCode,
   i |-> 1, subtotal |-> 0, orderItems |-> << >>, discountAmount |-> 0, couponData |-> FALSE,
   cUsed |-> 0, orderId |-> 0, j |-> 1, oldStock |-> 0, pStock |-> 0, pSales |-> 0]

\* res.status(...).json(...): the handler ends and its locals die
Respond(r, resp) ==
  /\ req' = [req EXCEPT ![r] = IdleReq]
  /\ outcome' = [outcome EXCEPT ![req[r].call] = resp]

Lines(pids) == [product : pids, quantity : 1..MaxQty]

\* request bodies that pass the route's validators: items is an array of at least one line
Carts(pids) == {<<l>> : l \in Lines(pids)} \cup {<<l1, l2>> : l1 \in Lines(pids), l2 \in Lines(pids)}

\* POST /api/orders arrives: req.user, req.body.items, req.body.couponCode
Start(r, users, carts, codes, limit) ==
  /\ req[r].pc = "idle"
  /\ \A r2 \in Requests : req[r2].pc = "idle" => r <= r2    \* a call takes the lowest free slot
  /\ calls < limit
  /\ \E u \in users, its \in carts, code \in codes :
       /\ req' = [req EXCEPT ![r] = [IdleReq EXCEPT !.pc = "validate", !.call = calls + 1,
                                                  !.user = u, !.items = its, !.couponCode = code]]
       /\ callIn' = [callIn EXCEPT ![calls + 1] = [user |-> u, items |-> its, couponCode |-> code]]
  /\ calls' = calls + 1
  /\ UNCHANGED <<product, coupon, orders, outcome, events, now, stock0, adm, admLog, checks, member, inbox>>

ItemTotalNoQuantity(price, quantity) == price

\* const itemTotal = product.price * item.quantity
ItemTotal(price, quantity) == price * quantity

\* one turn of the validation loop: await Product.findById, the three checks, the snapshot
ValidateItem(r) ==
  /\ req[r].pc = "validate"
  /\ LET q    == req[r]
         item == q.items[q.i]
         p    == product[item.product]
     IN  IF ~p.exists THEN Respond(r, "400_not_found")
         ELSE IF ~p.isActive THEN Respond(r, "400_not_available")
         ELSE IF ~isInStock(p, item.quantity) THEN Respond(r, "400_insufficient_stock")
         ELSE /\ req' = [req EXCEPT ![r] =
                    [q EXCEPT !.subtotal = @ + ItemTotal(p.price, item.quantity),
                              !.orderItems = Append(@, [product |-> item.product, price |-> p.price,
                                                        quantity |-> item.quantity]),
                              !.i = @ + 1,
                              !.pc = IF q.i < Len(q.items) THEN "validate"
                                     ELSE IF q.couponCode # NoCode THEN "coupon"
                                     ELSE "create"]]
              /\ UNCHANGED outcome
  /\ UNCHANGED <<product, coupon, orders, calls, events, now, stock0, callIn, adm, admLog, checks, member, inbox>>

\* await Coupon.findOne, canUserUse, calculateDiscount, and the in-memory usage update
CouponLoad(r) ==
  /\ req[r].pc = "coupon"
  /\ LET q == req[r]
     IN  IF q.couponCode # CouponCode \/ ~canUserUse(coupon, q.user, now)
         THEN Respond(r, "400_invalid_coupon")
         ELSE /\ req' = [req EXCEPT ![r] =
                    [q EXCEPT !.discountAmount = calculateDiscount(coupon, q.subtotal, now),
                              !.couponData = TRUE,
                              !.cUsed = coupon.usedCount + 1,
                              !.pc = "couponSave"]]
              /\ UNCHANGED outcome
  /\ UNCHANGED <<product, coupon, orders, calls, events, now, stock0, callIn, adm, admLog, checks, member, inbox>>

\* await coupon.save(): $set usedCount to the document's value, $push the new usage entry
CouponSave(r) ==
  /\ req[r].pc = "couponSave"
  /\ coupon' = [coupon EXCEPT !.usedCount = req[r].cUsed,
                              !.usageHistory = Append(@, [user |-> req[r].user, order |-> NullOrder,
                                                          discountAmount |-> req[r].discountAmount])]
  /\ req' = [req EXCEPT ![r].pc = "create"]
  /\ UNCHANGED <<product, orders, outcome, calls, events, now, stock0, callIn, adm, admLog, checks, member, inbox>>

\* coupon.save() rejects (the write is refused): caught, 500
CouponSaveRejects(r) ==
  /\ req[r].pc = "couponSave"
  /\ Respond(r, "500")
  /\ UNCHANGED <<product, coupon, orders, calls, events, now, stock0, callIn, adm, admLog, checks, member, inbox>>

NewOrder(q, id) ==
  [id |-> id, call |-> q.call, user |-> q.user, items |-> q.orderItems,
   subtotal |-> q.subtotal, taxAmount |-> 0, shippingAmount |-> 0,
   discountAmount |-> q.discountAmount,
   totalAmount |-> q.subtotal + 0 + 0 - q.discountAmount,
   coupon |-> IF q.couponData THEN q.couponCode ELSE NoCode,
   paymentStatus |-> "pending", orderStatus |-> "pending",
   statusHistory |-> StatusHistoryOnSave(<< >>, "pending", TRUE, TRUE),
   deliveredAt |-> Undefined, cancelledAt |-> Undefined, cancellationReason |-> Undefined]

\* await Order.create(...): validated against orderSchema, then inserted
OrderCreate(r) ==
  /\ req[r].pc = "create"
  /\ LET q   == req[r]
         doc == NewOrder(q, Len(orders) + 1)
     IN  IF ~OrderValid(doc)
         THEN Respond(r, "500") /\ UNCHANGED orders
         ELSE /\ orders' = Append(orders, doc)
              /\ req' = [req EXCEPT ![r] = [q EXCEPT !.orderId = doc.id,
                            !.pc = IF q.couponCode # NoCode /\ q.couponData THEN "link" ELSE "notify"]]
              /\ UNCHANGED outcome
  /\ UNCHANGED <<product, coupon, calls, events, now, stock0, callIn, adm, admLog, checks, member, inbox>>

\* Order.create rejects (a document the schema refuses, such as an address object
\* without its required fields, or a failed write): caught, 500
OrderCreateRejects(r) ==
  /\ req[r].pc = "create"
  /\ Respond(r, "500")
  /\ UNCHANGED <<product, coupon, orders, calls, events, now, stock0, callIn, adm, admLog, checks, member, inbox>>

FirstNullOrder(h) ==
  LET S == {k \in 1..Len(h) : h[k].order = NullOrder}
  IN  IF S = {} THEN 0 ELSE CHOOSE k \in S : \A m \in S : k <= m

\* await Coupon.findOneAndUpdate({code, "usageHistory.order": null}, {$set: {"usageHistory.$.order": order._id}})
CouponLink(r) ==
  /\ req[r].pc = "link"
  /\ LET k == FirstNullOrder(coupon.usageHistory)
     IN  coupon' = IF k = 0 THEN coupon
                   ELSE [coupon EXCEPT !.usageHistory[k].order = req[r].orderId]
  /\ req' = [req EXCEPT ![r].pc = "notify"]
  /\ UNCHANGED <<product, orders, outcome, calls, events, now, stock0, callIn, adm, admLog, checks, member, inbox>>

\* await order.populate(...), then handleNewOrder up to its first await: the new_order event
Notify(r) ==
  /\ req[r].pc = "notify"
  /\ events' = emitAdminAnalytics(events, "new_order", req[r].orderId, 0, 0, req[r].call)
  /\ inbox' = Deliver(inbox, member, events, events')
  /\ req' = [req EXCEPT ![r].pc = "stockRead", ![r].j = 1]
  /\ UNCHANGED <<product, coupon, orders, outcome, calls, now, stock0, callIn, adm, admLog, checks, member>>

\* the loop of handleNewOrder leaves item j: next item, or createOrder answers 201
AfterItem(r, q) ==
  IF q.j < Len(q.orderItems)
  THEN /\ req' = [req EXCEPT ![r] = [q EXCEPT !.j = @ + 1, !.pc = "stockRead",
                                              !.oldStock = 0, !.pStock = 0, !.pSales = 0]]
       /\ UNCHANGED outcome
  ELSE Respond(r, "201")

\* await Product.findById(item.product); the decrement is applied to the loaded document
StockRead(r) ==
  /\ req[r].pc = "stockRead"
  /\ LET q    == req[r]
         item == q.orderItems[q.j]
         p    == product[item.product]
     IN  IF p.exists /\ p.trackQuantity
         THEN /\ req' = [req EXCEPT ![r] = [q EXCEPT !.oldStock = p.stock,
                                                     !.pStock = p.stock - item.quantity,
                                                     !.pSales = p.totalSales + item.quantity,
                                                     !.pc = "stockSave"]]
              /\ UNCHANGED outcome
         ELSE AfterItem(r, q)
  /\ UNCHANGED <<product, coupon, orders, calls, events, now, stock0, callIn, adm, admLog, checks, member, inbox>>

\* await product.save(): validators run on the modified paths, then $set stock and totalSales;
\* handleStockChange emits synchronously
StockSave(r) ==
  /\ req[r].pc = "stockSave"
  /\ LET q   == req[r]
         pid == q.orderItems[q.j].product
     IN  IF ~StockValidator(q.pStock)
         THEN Respond(r, "500") /\ UNCHANGED <<product, events, inbox>>
         ELSE /\ product' = [product EXCEPT ![pid].stock = q.pStock, ![pid].totalSales = q.pSales]
              /\ events' = handleStockChange(events, pid, q.oldStock, q.pStock, product[pid], q.call)
              /\ inbox' = Deliver(inbox, member, events, events')
              /\ AfterItem(r, q)
  /\ UNCHANGED <<coupon, orders, calls, now, stock0, callIn, adm, admLog, checks, member>>

createOrder(r) ==
  \/ ValidateItem(r)
  \/ CouponLoad(r)
  \/ CouponSave(r)
  \/ CouponSaveRejects(r)
  \/ OrderCreate(r)
  \/ OrderCreateRejects(r)
  \/ CouponLink(r)
  \/ Notify(r)
  \/ StockRead(r)
  \/ StockSave(r)

\* ------------------------------------------- updateOrderStatus, updatePaymentStatus
Admins == {1, 2}            \* admin request slots

IdleAdm == [pc |-> "idle", id |-> 0, target |-> "", old |-> "", notes |-> FALSE]

\* an answered admin request: from is the value the order held when the write was applied
Answer(kind, id, from, old, target, resp) ==
  [kind |-> kind, id |-> id, from |-> from, old |-> old, target |-> target, resp |-> resp]

\* await Order.findById(id); 404 when there is none; const oldStatus = order.orderStatus
StatusLoad(a, ids, statuses) ==
  /\ adm[a].pc = "idle"
  /\ Len(admLog) + Cardinality({b \in Admins : adm[b].pc # "idle"}) < MaxUpdates
  /\ \E id \in ids, st \in statuses, notes \in BOOLEAN :
       /\ notes => st = "cancelled"       \* notes only decide the cancellation reason
       /\ IF id > Len(orders)
          THEN /\ admLog' = Append(admLog, Answer("status", id, "", "", st, "404"))
               /\ UNCHANGED adm
          ELSE /\ adm' = [adm EXCEPT ![a] = [pc |-> "statusWrite", id |-> id, target |-> st,
                                             old |-> orders[id].orderStatus, notes |-> notes]]
               /\ UNCHANGED admLog
  /\ UNCHANGED <<product, coupon, orders, req, outcome, calls, events, now, stock0, callIn, checks, member, inbox>>

\* Order.findByIdAndUpdate writes the update document; save middleware does not run
StatusHistoryOnUpdate(history, status) == history

\* handleOrderStatusChange
handleOrderStatusChange(log, order, oldStatus, newStatus) ==
  emitAdminAnalytics(emitOrderUpdate(log, order.user, "order_status", order.id, oldStatus, newStatus),
                     "order_status_change", order.id, oldStatus, newStatus, 0)

\* handlePaymentStatusChange
handlePaymentStatusChange(log, order, oldStatus, newStatus) ==
  emitAdminAnalytics(emitOrderUpdate(log, order.user, "payment_update", order.id, oldStatus, newStatus),
                     "payment_status_change", order.id, oldStatus, newStatus, 0)

ApplyStatusUpdateStampsShipped(o, orderStatus, notes, t) ==
  [o EXCEPT !.orderStatus = orderStatus,
            !.statusHistory = StatusHistoryOnUpdate(@, orderStatus),
            !.deliveredAt = IF orderStatus \in {"shipped", "delivered"} THEN t ELSE @,
            !.cancelledAt = IF orderStatus = "cancelled" THEN t ELSE @,
            !.cancellationReason = IF orderStatus = "cancelled" /\ notes THEN 1 ELSE @]

\* the update document of updateOrderStatus applied by findByIdAndUpdate
ApplyStatusUpdate(o, orderStatus, notes, t) ==
  [o EXCEPT !.orderStatus = orderStatus,
            !.statusHistory = StatusHistoryOnUpdate(@, orderStatus),
            !.deliveredAt = IF orderStatus = "delivered" THEN t ELSE @,
            !.cancelledAt = IF orderStatus = "cancelled" THEN t ELSE @,
            !.cancellationReason = IF orderStatus = "cancelled" /\ notes THEN 1 ELSE @]

\* await Order.findByIdAndUpdate(id, updateData, {new, runValidators}), the events, 200
StatusWrite(a) ==
  /\ adm[a].pc = "statusWrite"
  /\ LET q == adm[a]
         o == orders[q.id]
         u == ApplyStatusUpdate(o, q.target, q.notes, now)
     IN  /\ orders' = [orders EXCEPT ![q.id] = u]
         /\ events' = handleOrderStatusChange(events, u, q.old, q.target)
         /\ inbox' = Deliver(inbox, member, events, events')
         /\ admLog' = Append(admLog, Answer("status", q.id, o.orderStatus, q.old, q.target, "200"))
  /\ adm' = [adm EXCEPT ![a] = IdleAdm]
  /\ UNCHANGED <<product, coupon, req, outcome, calls, now, stock0, callIn, checks, member>>

\* await Order.findById(id); 404 when there is none; const oldPaymentStatus = order.paymentStatus
PaymentLoad(a, ids) ==
  /\ adm[a].pc = "idle"
  /\ Len(admLog) + Cardinality({b \in Admins : adm[b].pc # "idle"}) < MaxUpdates
  /\ \E id \in ids, st \in PaymentStatuses :
       IF id > Len(orders)
       THEN /\ admLog' = Append(admLog, Answer("payment", id, "", "", st, "404"))
            /\ UNCHANGED adm
       ELSE /\ adm' = [adm EXCEPT ![a] = [pc |-> "paymentWrite", id |-> id, target |-> st,
                                          old |-> orders[id].paymentStatus, notes |-> FALSE]]
            /\ UNCHANGED admLog
  /\ UNCHANGED <<product, coupon, orders, req, outcome, calls, events, now, stock0, callIn, checks, member, inbox>>

ApplyPaymentUpdateRefundsTotal(o, paymentStatus) ==
  [o EXCEPT !.paymentStatus = paymentStatus,
            !.totalAmount = IF paymentStatus = "refunded" THEN 0 ELSE @]

\* the update document of updatePaymentStatus applied by findByIdAndUpdate
ApplyPaymentUpdate(o, paymentStatus) ==
  [o EXCEPT !.paymentStatus = paymentStatus]

\* await Order.findByIdAndUpdate(id, {paymentStatus, paymentId}, ...), the events, 200
PaymentWrite(a) ==
  /\ adm[a].pc = "paymentWrite"
  /\ LET q == adm[a]
         o == orders[q.id]
         u == ApplyPaymentUpdate(o, q.target)
     IN  /\ orders' = [orders EXCEPT ![q.id] = u]
         /\ events' = handlePaymentStatusChange(events, u, q.old, q.target)
         /\ inbox' = Deliver(inbox, member, events, events')
         /\ admLog' = Append(admLog, Answer("payment", q.id, o.paymentStatus, q.old, q.target, "200"))
  /\ adm' = [adm EXCEPT ![a] = IdleAdm]
  /\ UNCHANGED <<product, coupon, req, outcome, calls, now, stock0, callIn, checks, member>>

\* ------------------------------------------------------------ validateCoupon
\* the answer of validateCoupon for a coupon that was found
ValidateReply(c, userId, orderAmount, t) ==
  IF ~isValid(c, t) THEN "400_expired_or_inactive"
  ELSE IF ~canUserUse(c, userId, t) THEN "400_usage_limit"
  ELSE IF calculateDiscount(c, orderAmount, t) = 0 THEN "400_minimum_order"
  ELSE "200"

validateCouponCountingUse(codes, amounts) ==
  /\ Len(checks) < MaxChecks
  /\ \E u \in Users, code \in codes, orderAmount \in amounts :
       /\ checks' = Append(checks,
                     [user |-> u, code |-> code, orderAmount |-> orderAmount,
                      resp |-> IF code # CouponCode THEN "404"
                               ELSE ValidateReply(coupon, u, orderAmount, now),
                      discountAmount |-> IF code # CouponCode THEN 0
                                         ELSE calculateDiscount(coupon, orderAmount, now)])
       /\ coupon' = IF code = CouponCode /\ ValidateReply(coupon, u, orderAmount, now) = "200"
                    THEN [coupon EXCEPT !.usedCount = @ + 1]
                    ELSE coupon
  /\ UNCHANGED <<product, orders, req, outcome, calls, events, now, stock0, callIn, adm, admLog, member, inbox>>

\* POST /api/coupons/validate: await Coupon.findOne, the three checks, the answer
validateCoupon(codes, amounts) ==
  /\ Len(checks) < MaxChecks
  /\ \E u \in Users, code \in codes, orderAmount \in amounts :
       checks' = Append(checks,
                   [user |-> u, code |-> code, orderAmount |-> orderAmount,
                    resp |-> IF code # CouponCode THEN "404"
                             ELSE ValidateReply(coupon, u, orderAmount, now),
                    discountAmount |-> IF code # CouponCode THEN 0
                                       ELSE calculateDiscount(coupon, orderAmount, now)])
  /\ UNCHANGED <<product, coupon, orders, req, outcome, calls, events, now, stock0, callIn, adm, admLog, member, inbox>>

\* ------------------------------------------------------------ updateProduct
OrdersRepricedOnProductUpdate(os, productId, price) ==
  [k \in 1..Len(os) |->
     [os[k] EXCEPT !.items = [m \in 1..Len(os[k].items) |->
                                IF os[k].items[m].product = productId
                                THEN [os[k].items[m] EXCEPT !.price = price]
                                ELSE os[k].items[m]]]]

\* Product.findByIdAndUpdate(id, updates) writes the Product document and nothing else
OrdersOnProductUpdate(os, productId, price) == os

\* PUT /api/products/:id with a new price: findById, findByIdAndUpdate, 200
updateProduct(pids, prices) ==
  /\ \E pid \in pids, price \in prices :
       /\ product[pid].exists
       /\ price # product[pid].price
       /\ product' = [product EXCEPT ![pid].price = price]
       /\ orders' = OrdersOnProductUpdate(orders, pid, price)
  /\ UNCHANGED <<coupon, req, outcome, calls, events, now, stock0, callIn, adm, admLog, checks, member, inbox>>

\* ------------------------------------------------- socket event handlers
\* the requests made so far, as <<socket, position on its timeline>>
SocketRequests ==
  UNION { { <<s, k>> : k \in {j \in 1..Len(inbox[s]) : inbox[s][j].kind = "request"} } : s \in Sockets }

\* socket.on(name, ...) runs: the request goes on the socket's timeline, the socket
\* joins or leaves a room, and socket.emit sends it the replies
OnSocket(s, name, room, rooms, replies) ==
  /\ Cardinality(SocketRequests) < MaxSubs
  /\ member' = [member EXCEPT ![s] = rooms]
  /\ inbox' = [inbox EXCEPT ![s] = Append(@, Msg("request", name, room, 0)) \o
                                     [k \in 1..Len(replies) |-> Msg("reply", replies[k], room, 0)]]
  /\ UNCHANGED <<product, coupon, orders, req, outcome, calls, events, now, stock0, callIn, adm, admLog, checks>>

\* subscribe_product_stock: join product_<id>, then send the current stock
subscribe_product_stock(s, pids) ==
  /\ s \in Sockets
  /\ \E pid \in pids :
       OnSocket(s, "subscribe_product_stock", "product_" \o pid,
             member[s] \cup {"product_" \o pid}, <<"initial_stock_data">>)

\* unsubscribe_product_stock
unsubscribe_product_stock(s, pids) ==
  /\ s \in Sockets
  /\ \E pid \in pids :
       OnSocket(s, "unsubscribe_product_stock", "product_" \o pid,
             member[s] \ {"product_" \o pid}, << >>)

JoinAdminAnalyticsAnyRole(s) == member[s] \cup {"admin_analytics"}

\* the role check of subscribe_admin_analytics
JoinAdminAnalytics(s) ==
  IF SocketRole(s) # "admin" THEN member[s] ELSE member[s] \cup {"admin_analytics"}

\* subscribe_admin_analytics: admins join admin_analytics and get the initial analytics data
subscribe_admin_analytics(s) ==
  /\ s \in Sockets
  /\ OnSocket(s, "subscribe_admin_analytics", "admin_analytics", JoinAdminAnalytics(s),
           IF SocketRole(s) # "admin" THEN <<"error">> ELSE <<"initial_analytics_data">>)

unsubscribe_admin_analyticsKeepsRoom(s) ==
  /\ s \in Sockets
  /\ OnSocket(s, "unsubscribe_admin_analytics", "admin_analytics", member[s], << >>)

\* unsubscribe_admin_analytics
unsubscribe_admin_analytics(s) ==
  /\ s \in Sockets
  /\ OnSocket(s, "unsubscribe_admin_analytics", "admin_analytics", member[s] \ {"admin_analytics"}, << >>)

\* subscribe_order_updates: the room is named after the socket's own user id
subscribe_order_updates(s) ==
  /\ s \in Sockets
  /\ OnSocket(s, "subscribe_order_updates", "user_orders_" \o SocketUser(s),
           member[s] \cup {"user_orders_" \o SocketUser(s)}, << >>)

\* unsubscribe_order_updates
unsubscribe_order_updates(s) ==
  /\ s \in Sockets
  /\ OnSocket(s, "unsubscribe_order_updates", "user_orders_" \o SocketUser(s),
           member[s] \ {"user_orders_" \o SocketUser(s)}, << >>)

\* subscribe_admin_orders: admins join admin_orders
subscribe_admin_orders(s) ==
  /\ s \in Sockets
  /\ OnSocket(s, "subscribe_admin_orders", "admin_orders",
           IF SocketRole(s) # "admin" THEN member[s] ELSE member[s] \cup {"admin_orders"},
           IF SocketRole(s) # "admin" THEN <<"error">> ELSE << >>)

handleWebSocketEvents(s) ==
  \/ subscribe_product_stock(s, {"p1"})
  \/ unsubscribe_product_stock(s, {"p1"})
  \/ subscribe_admin_analytics(s)
  \/ unsubscribe_admin_analytics(s)
  \/ subscribe_order_updates(s)
  \/ unsubscribe_order_updates(s)
  \/ subscribe_admin_orders(s)

\* ------------------------------------------------------------ initial data
Prod(price, stock, threshold, track, backorder, active, exists) ==
  [price |-> price, stock |-> stock, lowStockThreshold |-> threshold, trackQuantity |-> track,
   allowBackorder |-> backorder, isActive |-> active, exists |-> exists, totalSales |-> 0]

Coup(type, value, minimum, maximum, limit, perUser, active, startDate, endDate, users, restricted) ==
  [discountType |-> type, discountValue |-> value, minimumOrderAmount |-> minimum,
   maximumDiscountAmount |-> maximum, usageLimit |-> limit, usageLimitPerUser |-> perUser,
   usedCount |-> 0, isActive |-> active, startDate |-> startDate, endDate |-> endDate,
   applicableUsers |-> users, restricted |-> restricted, usageHistory |-> << >>]

InitCommon ==
  /\ orders = << >>
  /\ req = [r \in Requests |-> IdleReq]
  /\ outcome = [c \in 1..MaxCalls |-> "none"]
  /\ calls = 0
  /\ events = << >>
  /\ now = 1
  /\ stock0 = [p \in ProductIds |-> product[p].stock]
  /\ callIn = [c \in 1..MaxCalls |-> [user |-> "u1", items |-> << >>, couponCode |-> NoCode]]
  /\ adm = [a \in Admins |-> IdleAdm]
  /\ admLog = << >>
  /\ checks = << >>
  /\ member = [s \in Sockets |-> {}]
  /\ inbox = [s \in Sockets |-> << >>]

\* two shoppers on one tracked product; the coupon limits one use per user or one use in all
Init ==
  /\ \E s \in 1..MaxStock :
       product = [p \in ProductIds |->
                    IF p = "p1" THEN Prod(20, s, 1, TRUE, FALSE, TRUE, TRUE)
                    ELSE Prod(150, 1, 10, TRUE, TRUE, TRUE, TRUE)]
  /\ coupon \in {Coup("percentage", 50, 50, 20, Undefined, 1, TRUE, 0, 2, {}, FALSE),
                 Coup("fixed", 50, 0, Undefined, 1, Undefined, TRUE, 0, 2, {}, FALSE)}
  /\ InitCommon

Next ==
  \E r \in Requests :
    \/ Start(r, Users, Carts({"p1"}), {NoCode, CouponCode}, MaxCalls)
    \/ createOrder(r)

Spec == Init /\ [][Next]_vars

\* one shopper places an order; two admins then change its status and payment status
InitStatus ==
  /\ Init
  /\ product["p1"].stock = MaxStock
  /\ coupon.discountType = "fixed"

NextStatus ==
  \/ Start(1, Users, {<< [product |-> "p1", quantity |-> 1] >>}, {NoCode}, 1)
  \/ ValidateItem(1)
  \/ OrderCreate(1)
  \/ OrderCreateRejects(1)
  \/ Notify(1)
  \/ StockRead(1)
  \/ StockSave(1)
  \/ \E a \in Admins :
       \/ StatusLoad(a, {1}, OrderStatuses)
       \/ StatusWrite(a)
       \/ PaymentLoad(a, {1})
       \/ PaymentWrite(a)

SpecStatus == InitStatus /\ [][NextStatus]_vars

\* one shopper at a time orders from both products, the second of which is backordered,
\* untracked, inactive or missing, while an admin changes the first product's price
InitSeq ==
  /\ \E s \in 1..MaxStock :
       product \in { [p \in ProductIds |-> IF p = "p1" THEN Prod(20, s, 1, TRUE, FALSE, TRUE, TRUE) ELSE p2] :
                     p2 \in { Prod(150, 1, 0, TRUE, TRUE, TRUE, TRUE),
                              Prod(150, 1, 0, FALSE, FALSE, TRUE, TRUE),
                              Prod(150, 1, 0, TRUE, FALSE, FALSE, TRUE),
                              Prod(150, 1, 0, TRUE, FALSE, TRUE, FALSE) } }
  /\ coupon = Coup("fixed", 50, 0, Undefined, 1, Undefined, TRUE, 0, 2, {}, FALSE)
  /\ InitCommon

NextSeq ==
  \/ Start(1, {"u1"}, Carts(ProductIds), {NoCode}, MaxCalls)
  \/ ValidateItem(1)
  \/ OrderCreate(1)
  \/ OrderCreateRejects(1)
  \/ Notify(1)
  \/ StockRead(1)
  \/ StockSave(1)
  \/ updateProduct({"p1"}, {20, 30})

SpecSeq == InitSeq /\ [][NextSeq]_vars

\* one order and one coupon validation against coupons of every shape: arithmetic
\* (type, minimum, cap) on an eligible coupon, or eligibility (active, window, limits,
\* allow-list, earlier use) on a plain one
DiscountCoupons ==
  { Coup(type, IF type = "percentage" THEN 10 ELSE 50, minimum, maximum,
         Undefined, Undefined, TRUE, 0, 2, {}, FALSE) :
      type \in {"percentage", "fixed"}, minimum \in {0, 50}, maximum \in {Undefined, 0, 20} }

Used(c, h) == [c EXCEPT !.usageHistory = h, !.usedCount = Len(h)]

EligibilityCoupons ==
  { Used(Coup("percentage", 10, 0, Undefined, limit, perUser, active, w[1], w[2], users, FALSE), h) :
      limit \in {Undefined, 1}, perUser \in {Undefined, 1}, active \in BOOLEAN,
      w \in {<<1, 2>>, <<0, 1>>, <<2, 3>>, <<-2, 0>>}, users \in {{}, {"u1"}},
      h \in {<< >>} \cup {<< [user |-> u, order |-> 7, discountAmount |-> 2] >> : u \in Users} }

InitCoupon ==
  /\ product = [p \in ProductIds |->
                  IF p = "p1" THEN Prod(20, MaxStock, 1, TRUE, FALSE, TRUE, TRUE)
                  ELSE Prod(150, 1, 0, FALSE, FALSE, TRUE, TRUE)]
  /\ coupon \in DiscountCoupons \cup EligibilityCoupons
  /\ InitCommon

NextCoupon ==
  \/ Start(1, Users, {<<l>> : l \in Lines(ProductIds)}, {CouponCode}, 1)
  \/ createOrder(1)
  \/ validateCoupon({CouponCode}, {40, 300})

SpecCoupon == InitCoupon /\ [][NextCoupon]_vars

\* one order that takes p1 across its low-stock threshold and is then confirmed, while a
\* customer's socket and an admin's socket subscribe and unsubscribe
InitBus ==
  /\ product = [p \in ProductIds |->
                  IF p = "p1" THEN Prod(20, MaxStock, MaxStock - 1, TRUE, FALSE, TRUE, TRUE)
                  ELSE Prod(150, 1, 0, TRUE, TRUE, TRUE, TRUE)]
  /\ coupon = Coup("fixed", 50, 0, Undefined, 1, Undefined, TRUE, 0, 2, {}, FALSE)
  /\ InitCommon

NextBus ==
  \/ Start(1, {"u1"}, {<< [product |-> "p1", quantity |-> 1] >>}, {NoCode}, 1)
  \/ ValidateItem(1)
  \/ OrderCreate(1)
  \/ Notify(1)
  \/ StockRead(1)
  \/ StockSave(1)
  \/ StatusLoad(1, {1}, {"confirmed"})
  \/ StatusWrite(1)
  \/ \E s \in Sockets : handleWebSocketEvents(s)

SpecBus == InitBus /\ [][NextBus]_vars

\* one request of one or two lines, with or without the coupon, while the second
\* product is orderable, inactive or missing
InitOne ==
  /\ \E s \in 1..MaxStock :
       product \in { [p \in ProductIds |-> IF p = "p1" THEN Prod(20, s, 1, TRUE, FALSE, TRUE, TRUE) ELSE p2] :
                     p2 \in { Prod(150, 1, 0, TRUE, TRUE, TRUE, TRUE),
                              Prod(150, 1, 0, TRUE, FALSE, FALSE, TRUE),
                              Prod(150, 1, 0, TRUE, FALSE, TRUE, FALSE) } }
  /\ coupon = Coup("fixed", 50, 0, Undefined, 1, Undefined, TRUE, 0, 2, {}, FALSE)
  /\ InitCommon

NextOne ==
  \/ Start(1, {"u1"}, Carts(ProductIds), {NoCode, CouponCode}, 1)
  \/ createOrder(1)

SpecOne == InitOne /\ [][NextOne]_vars

\* ------------------------------------------------------------------ claims
Tracked(p) == product[p].trackQuantity /\ ~product[p].allowBackorder

\* units of product p on the lines of order o
OrderQty(o, p) ==
  SumSeq([k \in 1..Len(o.items) |-> IF o.items[k].product = p THEN o.items[k].quantity ELSE 0])

Quiescent == \A r \in Requests : req[r].pc = "idle"

CouponOrders == {k \in 1..Len(orders) : orders[k].coupon # NoCode}

\* C1: no overselling. For requests of one line each on a tracked product without
\* backorder, the quantities of the persisted orders never add up to more than the
\* stock the product had before any of them started.
C1_NoOverselling ==
  \A p \in ProductIds :
    Tracked(p) =>
      SumSeq([k \in 1..Len(orders) |->
                IF Len(orders[k].items) = 1 THEN OrderQty(orders[k], p) ELSE 0]) <= stock0[p]

\* two requests for one unit of p1 each, at stock 1, without coupon, both answered,
\* and neither refused by Order.create
OversellScenario ==
  /\ stock0["p1"] = 1
  /\ calls = 2
  /\ \A c \in 1..2 :
       /\ callIn[c].items = << [product |-> "p1", quantity |-> 1] >>
       /\ callIn[c].couponCode = NoCode
       /\ outcome[c] # "none"
       /\ outcome[c] = "500" => \E k \in 1..Len(orders) : orders[k].call = c

\* C2: in the oversell scenario exactly one request succeeds and leaves stock 0; the
\* other fails with insufficient stock and creates no order.
C2_ExactlyOneSucceeds ==
  OversellScenario =>
    /\ \E c \in 1..2 : outcome[c] = "201" /\ outcome[3 - c] = "400_insufficient_stock"
    /\ product["p1"].stock = 0
    /\ Len(orders) = 1

\* C3: a product with trackQuantity and without allowBackorder never has negative stock.
C3_StockNeverNegative ==
  \A p \in ProductIds : Tracked(p) => product[p].stock >= 0

\* an order that lists the tracked product on two lines was persisted and its second
\* decrement was refused: the caller got 500 and the stock stayed at or above zero
C3_Witness ==
  \E k \in 1..Len(orders) :
    /\ Len(orders[k].items) = 2
    /\ OrderQty(orders[k], "p1") > stock0["p1"]
    /\ outcome[orders[k].call] = "500"
    /\ product["p1"].stock >= 0

\* C4: every persisted order has subtotal = sum of price * quantity over its lines and
\* totalAmount = subtotal + taxAmount + shippingAmount - discountAmount >= 0.
C4_OrderTotals ==
  \A k \in 1..Len(orders) :
    LET o == orders[k]
    IN  /\ o.subtotal = SumSeq([m \in 1..Len(o.items) |-> o.items[m].price * o.items[m].quantity])
        /\ o.totalAmount = o.subtotal + o.taxAmount + o.shippingAmount - o.discountAmount
        /\ o.totalAmount >= 0

\* a two-line order with a coupon whose discount was capped at the order amount
C4_Witness ==
  \E k \in 1..Len(orders) :
    /\ Len(orders[k].items) = 2
    /\ orders[k].coupon # NoCode
    /\ orders[k].discountAmount = orders[k].subtotal
    /\ orders[k].discountAmount > 0
    /\ orders[k].totalAmount = 0

\* C5: once every createOrder call has answered, usedCount equals the number of
\* persisted orders that applied the coupon.
C5_UsedCountMatchesOrders ==
  Quiescent => coupon.usedCount = Cardinality(CouponOrders)

\* C6: coupon usage is recorded only after the order is persisted: the usage history
\* never holds more entries than there are persisted orders that applied the coupon.
C6_UsageAfterPersistence ==
  Len(coupon.usageHistory) <= Cardinality(CouponOrders)

\* C7: with usageLimitPerUser set, no user has more usage-history entries than the limit.
C7_PerUserLimit ==
  Truthy(coupon.usageLimitPerUser) =>
    \A u \in Users : UserUsageCount(coupon, u) <= coupon.usageLimitPerUser

\* the transition tables of the order state machine (specification, section 4.3)
OrderEdges ==
  { <<"pending", "confirmed">>, <<"confirmed", "processing">>, <<"processing", "shipped">>,
    <<"shipped", "delivered">>, <<"pending", "cancelled">>, <<"confirmed", "cancelled">>,
    <<"processing", "cancelled">>, <<"delivered", "returned">> }

PaymentEdges ==
  { <<"pending", "paid">>, <<"pending", "failed">>, <<"paid", "refunded">>,
    <<"paid", "partially_refunded">> }

Accepted(kind) == SelectSeq(admLog, LAMBDA e : e.kind = kind /\ e.resp = "200")

\* C8: every order-status request that updateOrderStatus accepted moved the order
\* along an edge of the order state machine.
C8_OrderStatusEdgesOnly ==
  \A k \in 1..Len(Accepted("status")) :
    <<Accepted("status")[k].from, Accepted("status")[k].target>> \in OrderEdges

\* C9: every payment-status request that updatePaymentStatus accepted moved the
\* order along an edge of the payment state machine.
C9_PaymentStatusEdgesOnly ==
  \A k \in 1..Len(Accepted("payment")) :
    <<Accepted("payment")[k].from, Accepted("payment")[k].target>> \in PaymentEdges

\* the statuses of order id that updateOrderStatus accepted, in the order of acceptance
AcceptedTargets(id) ==
  LET acc == SelectSeq(Accepted("status"), LAMBDA e : e.id = id)
  IN  [k \in 1..Len(acc) |-> acc[k].target]

\* C10: every accepted order-status transition appends one entry to statusHistory and
\* keeps the earlier ones: the history ends with the accepted statuses, in order.
C10_HistoryAppended ==
  \A id \in 1..Len(orders) :
    LET h == orders[id].statusHistory
        t == AcceptedTargets(id)
    IN  /\ Len(h) >= Len(t)
        /\ SubSeq(h, Len(h) - Len(t) + 1, Len(h)) = t

\* low-stock alerts published for product p
Alerts(p) ==
  Cardinality({k \in 1..Len(events) : events[k].event = "low_stock_alert" /\ events[k].ref = p})

\* stock only goes down here, so it crosses the threshold at most once
Crossed(p) ==
  stock0[p] > product[p].lowStockThreshold /\ product[p].stock <= product[p].lowStockThreshold

\* C11: the low-stock alert is edge-triggered: one alert for each move of the stock from
\* above the threshold to at or below it, and none for a decrement that starts at or
\* below the threshold.
C11_AlertOncePerCrossing ==
  \A p \in ProductIds : Alerts(p) = IF Crossed(p) THEN 1 ELSE 0

\* the discount of the specification (section 4.2): the base amount, capped by
\* maximumDiscountAmount when one is present, and by the order amount
ClaimedDiscount(c, orderAmount) ==
  LET base == IF c.discountType = "percentage"
              THEN (orderAmount * c.discountValue) \div 100
              ELSE c.discountValue
      capped == IF c.maximumDiscountAmount # Undefined
                THEN Min(base, c.maximumDiscountAmount)
                ELSE base
  IN  Min(capped, orderAmount)

\* C12: for an eligible coupon and an order amount of at least minimumOrderAmount the
\* discount is min(min(base, maximumDiscountAmount if present), orderAmount), also
\* when maximumDiscountAmount is 0: in every order that applied the coupon and in
\* every answer of validateCoupon that found the coupon eligible.
C12_DiscountFormula ==
  /\ \A k \in CouponOrders :
       orders[k].subtotal >= coupon.minimumOrderAmount =>
         orders[k].discountAmount = ClaimedDiscount(coupon, orders[k].subtotal)
  /\ \A k \in 1..Len(checks) :
       /\ checks[k].resp \in {"200", "400_minimum_order"}
       /\ checks[k].orderAmount >= coupon.minimumOrderAmount
       => checks[k].discountAmount = ClaimedDiscount(coupon, checks[k].orderAmount)

\* the order amount of a request body at the current prices
Amount(items) ==
  SumSeq([k \in 1..Len(items) |-> product[items[k].product].price * items[k].quantity])

\* answered calls that reached the coupon step with the coupon and an order amount
\* below its minimumOrderAmount, and were not cut short by a refused write
BelowMinimumCalls ==
  {c \in 1..calls :
     /\ outcome[c] \notin {"none", "400_not_found", "400_not_available", "400_insufficient_stock", "500"}
     /\ callIn[c].couponCode = CouponCode
     /\ Amount(callIn[c].items) < coupon.minimumOrderAmount}

\* C13: a createOrder call with a coupon whose minimumOrderAmount exceeds the order
\* amount is rejected as an invalid coupon and persists no order; when no other call
\* was made, usedCount and usageHistory are as they were before it.
C13_BelowMinimumRejected ==
  /\ \A c \in BelowMinimumCalls :
       /\ outcome[c] = "400_invalid_coupon"
       /\ \A k \in 1..Len(orders) : orders[k].call # c
  /\ (calls = 1 /\ BelowMinimumCalls = {1}) => coupon.usedCount = 0 /\ coupon.usageHistory = << >>

\* call c failed on a line item that could not be reserved: refused by the stock check
\* of the validation loop, or by product.save() in handleNewOrder after the order was persisted
ReservationFailed(c) ==
  \/ outcome[c] = "400_insufficient_stock"
  \/ outcome[c] = "500" /\ \E k \in 1..Len(orders) : orders[k].call = c

\* C14: a createOrder call that fails because a line item cannot be reserved reports
\* insufficient stock and leaves the stock of every product of the order as it was
\* before the call (checked on the first call, before another one starts, for carts
\* of tracked products without backorder, the ones a reservation can fail on).
C14_FailedOrderRestoresStock ==
  (/\ calls = 1
   /\ ReservationFailed(1)
   /\ \A k \in 1..Len(callIn[1].items) : Tracked(callIn[1].items[k].product)) =>
    /\ outcome[1] = "400_insufficient_stock"
    /\ \A p \in ProductIds : product[p].stock = stock0[p]

\* C15: a failure while publishing never fails the order: a call whose order was
\* persisted is answered 201.
C15_PersistedOrderSucceeds ==
  \A c \in 1..calls :
    (outcome[c] # "none" /\ \E k \in 1..Len(orders) : orders[k].call = c) => outcome[c] = "201"

\* C16 as stated: every persisted order starts with orderStatus pending, paymentStatus
\* pending and a status history of exactly one entry (no status is ever changed here).
C16_OneInitialHistoryEntry ==
  \A k \in 1..Len(orders) :
    /\ orders[k].orderStatus = "pending"
    /\ orders[k].paymentStatus = "pending"
    /\ Len(orders[k].statusHistory) = 1

\* C16, amended: every order persisted by createOrder starts with orderStatus pending,
\* paymentStatus pending and an empty status history.
C16_StartsPendingEmptyHistory ==
  \A k \in 1..Len(orders) :
    /\ orders[k].orderStatus = "pending"
    /\ orders[k].paymentStatus = "pending"
    /\ orders[k].statusHistory = << >>

\* an order was persisted and its call answered 201
C16_Witness ==
  \E k \in 1..Len(orders) : outcome[orders[k].call] = "201" /\ orders[k].statusHistory = << >>

\* C17: line-item prices are frozen at order time: no step, a product price update
\* included, changes the lines, the subtotal or the totalAmount of a persisted order.
C17_PricesFrozen ==
  [][\A k \in 1..Len(orders) :
       /\ orders'[k].items = orders[k].items
       /\ orders'[k].subtotal = orders[k].subtotal
       /\ orders'[k].totalAmount = orders[k].totalAmount]_vars

\* the price of p1 was changed after an order of p1 was persisted: the line keeps the
\* price it was ordered at and the totals still follow from it
C17_Witness ==
  \E k \in 1..Len(orders) :
    /\ orders[k].items[1].product = "p1"
    /\ orders[k].items[1].price # product["p1"].price
    /\ orders[k].subtotal = SumSeq([m \in 1..Len(orders[k].items) |->
                                      orders[k].items[m].price * orders[k].items[m].quantity])
    /\ orders[k].totalAmount = orders[k].subtotal

\* the acceptance conditions of the specification (section 4.2)
Eligible(c, userId, t) ==
  /\ c.isActive
  /\ c.startDate <= t /\ t <= c.endDate
  /\ c.usageLimit # Undefined => c.usedCount < c.usageLimit
  /\ c.applicableUsers # {} => userId \in c.applicableUsers
  /\ c.usageLimitPerUser # Undefined => UserUsageCount(c, userId) < c.usageLimitPerUser

\* C18: a coupon is accepted for a user exactly when it is active, inside its window,
\* under its usage limit, open to the user and under the user's own limit: createOrder
\* refuses the coupon exactly when that fails, and validateCoupon answers "expired or
\* inactive" or "usage limit" exactly when that fails.
C18_AcceptedIffEligible ==
  [][/\ \A r \in Requests :
          (req[r].pc = "coupon" /\ req'[r].pc # "coupon") =>
            (outcome'[req[r].call] = "400_invalid_coupon" <=> ~Eligible(coupon, req[r].user, now))
     /\ Len(checks') > Len(checks) =>
          (checks'[Len(checks')].resp \in {"400_expired_or_inactive", "400_usage_limit"}
             <=> ~Eligible(coupon, checks'[Len(checks')].user, now))]_vars

\* a coupon limited to u1, otherwise usable: validateCoupon accepted it for u1 and
\* createOrder refused it for u2
C18_Witness ==
  /\ coupon.applicableUsers = {"u1"}
  /\ isValid(coupon, now)
  /\ Len(checks) = 1 /\ checks[1].user = "u1" /\ checks[1].resp = "200"
  /\ callIn[1].user = "u2" /\ outcome[1] = "400_invalid_coupon"

\* units of product p in a request body
CartQty(items, p) ==
  SumSeq([k \in 1..Len(items) |-> IF items[k].product = p THEN items[k].quantity ELSE 0])

\* C19: for a product with trackQuantity false or allowBackorder true, reserving any
\* quantity succeeds and lowers the stock by that quantity, below zero if need be, and
\* the order succeeds (checked on a first call whose lines are all on such a product
\* and whose order was persisted).
C19_BackorderAlwaysReserves ==
  \A p \in ProductIds :
    (/\ calls = 1 /\ outcome[1] # "none"
     /\ ~Tracked(p)
     /\ \A k \in 1..Len(callIn[1].items) : callIn[1].items[k].product = p
     /\ \E k \in 1..Len(orders) : orders[k].call = 1) =>
      /\ outcome[1] = "201"
      /\ product[p].stock = stock0[p] - CartQty(callIn[1].items, p)

\* the events of call c, in the order they were emitted
EventsOf(c) == SelectSeq(events, LAMBDA e : e.call = c)

\* C20: the events of one createOrder call come in publish order: the admin new-order
\* notification first and only once, then the stock updates of the line items in line
\* order; a low-stock alert directly follows the stock update of its product, ahead
\* of the next line item's stock update.
C20_PublishOrder ==
  \A c \in 1..calls :
    LET es == EventsOf(c)
        su == SelectSeq(es, LAMBDA e : e.event = "stock_updated")
        tr == SelectSeq(callIn[c].items, LAMBDA l : product[l.product].exists /\ product[l.product].trackQuantity)
    IN  /\ \A k \in 1..Len(es) : es[k].type = "new_order" <=> k = 1
        /\ Len(su) <= Len(tr)
        /\ \A k \in 1..Len(su) : su[k].ref = tr[k].product /\ su[k].a - su[k].b = tr[k].quantity
        /\ \A k \in 1..Len(es) :
             es[k].event = "low_stock_alert" =>
               /\ k > 1
               /\ es[k - 1].event = "stock_updated"
               /\ es[k - 1].ref = es[k].ref
               /\ es[k - 1].b = es[k].a

\* an answered two-line order whose first line took p1 across its threshold: new order,
\* stock update, alert, analytics for p1, then the stock update of the second line
C20_Witness ==
  \E c \in 1..calls :
    /\ outcome[c] = "201"
    /\ Len(EventsOf(c)) >= 5
    /\ EventsOf(c)[1].type = "new_order"
    /\ EventsOf(c)[2].event = "stock_updated" /\ EventsOf(c)[2].ref = "p1"
    /\ EventsOf(c)[3].event = "low_stock_alert" /\ EventsOf(c)[3].ref = "p1"
    /\ EventsOf(c)[4].type = "stock_update"
    /\ EventsOf(c)[5].event = "stock_updated"

Subscriptions == {"subscribe_product_stock", "subscribe_admin_analytics",
                  "subscribe_order_updates", "subscribe_admin_orders"}

\* on timeline tl, before position k, the socket asked for room r and has not asked to leave it since
Subscribed(tl, k, r) ==
  \E j \in 1..(k - 1) :
    /\ tl[j].kind = "request" /\ tl[j].room = r /\ tl[j].name \in Subscriptions
    /\ \A i \in (j + 1)..(k - 1) :
         ~(tl[i].kind = "request" /\ tl[i].room = r /\ tl[i].name \notin Subscriptions)

\* C21: delivery is at-most-once with no replay: an event reaches a socket only in the
\* step that publishes it, only if the socket is then subscribed to the event's room
\* (it asked for the room and has not unsubscribed since), and never twice.
C21_AtMostOnceNoReplay ==
  [][\A s \in Sockets : \A k \in (Len(inbox[s]) + 1)..Len(inbox'[s]) :
       inbox'[s][k].kind = "event" =>
         /\ inbox'[s][k].id > Len(events)
         /\ inbox'[s][k].id <= Len(events')
         /\ events'[inbox'[s][k].id].room = inbox'[s][k].room
         /\ Subscribed(inbox'[s], k, inbox'[s][k].room)
         /\ \A j \in 1..Len(inbox'[s]) :
              (j # k /\ inbox'[s][j].kind = "event") => inbox'[s][j].id # inbox'[s][k].id]_vars

\* the admin subscribed to admin_analytics, was sent the new-order event, unsubscribed,
\* and the three stock events published afterwards did not reach it
C21_Witness ==
  /\ Len(events) >= 4
  /\ Len(inbox[2]) = 4
  /\ inbox[2][1].name = "subscribe_admin_analytics"
  /\ inbox[2][3].kind = "event" /\ inbox[2][3].id = 1
  /\ inbox[2][4].name = "unsubscribe_admin_analytics"

\* the step in which admin slot a applies its order-status write
StatusWritten(a) == adm[a].pc = "statusWrite" /\ adm'[a].pc = "idle"

\* the step in which admin slot a applies its payment-status write
PaymentWritten(a) == adm[a].pc = "paymentWrite" /\ adm'[a].pc = "idle"

\* the three stamps of an order
Stamps(o) == <<o.deliveredAt, o.cancelledAt, o.cancellationReason>>

\* C22 as stated: a transition to delivered sets deliveredAt, a transition to cancelled
\* sets cancelledAt and cancellationReason, and no other transition sets these fields.
C22_StampsAsStated ==
  [][\A a \in Admins :
       /\ StatusWritten(a) =>
            LET o == orders[adm[a].id]
                n == orders'[adm[a].id]
            IN  /\ adm[a].target = "delivered" => n.deliveredAt # Undefined
                /\ adm[a].target = "cancelled" =>
                     n.cancelledAt # Undefined /\ n.cancellationReason # Undefined
                /\ adm[a].target # "delivered" => n.deliveredAt = o.deliveredAt
                /\ adm[a].target # "cancelled" =>
                     n.cancelledAt = o.cancelledAt /\ n.cancellationReason = o.cancellationReason
       /\ PaymentWritten(a) => Stamps(orders'[adm[a].id]) = Stamps(orders[adm[a].id])]_vars

\* C22, amended: a transition to delivered sets deliveredAt; a transition to cancelled
\* sets cancelledAt, and sets cancellationReason when the request carries notes (it is
\* left as it was otherwise); no other transition sets these fields.
C22_StampsWithOptionalReason ==
  [][\A a \in Admins :
       /\ StatusWritten(a) =>
            LET o == orders[adm[a].id]
                n == orders'[adm[a].id]
            IN  /\ adm[a].target = "delivered" => n.deliveredAt # Undefined
                /\ adm[a].target = "cancelled" => n.cancelledAt # Undefined
                /\ (adm[a].target = "cancelled" /\ adm[a].notes) => n.cancellationReason # Undefined
                /\ adm[a].target # "delivered" => n.deliveredAt = o.deliveredAt
                /\ adm[a].target # "cancelled" => n.cancelledAt = o.cancelledAt
                /\ ~(adm[a].target = "cancelled" /\ adm[a].notes) =>
                     n.cancellationReason = o.cancellationReason
       /\ PaymentWritten(a) => Stamps(orders'[adm[a].id]) = Stamps(orders[adm[a].id])]_vars

\* the order was cancelled without notes and then marked delivered: both timestamps
\* are set and there is no cancellation reason
C22_Witness ==
  /\ Len(orders) = 1
  /\ orders[1].orderStatus = "delivered"
  /\ orders[1].deliveredAt # Undefined
  /\ orders[1].cancelledAt # Undefined
  /\ orders[1].cancellationReason = Undefined

HasMissing(items) == \E k \in 1..Len(items) : ~product[items[k].product].exists

HasInactive(items) ==
  \E k \in 1..Len(items) : product[items[k].product].exists /\ ~product[items[k].product].isActive

\* nothing was mutated since the initial state
Untouched ==
  /\ orders = << >>
  /\ events = << >>
  /\ \A p \in ProductIds : product[p].stock = stock0[p] /\ product[p].totalSales = 0
  /\ coupon.usedCount = 0 /\ coupon.usageHistory = << >>

\* C23 as stated: createOrder fails with NotFound when any requested product is
\* missing and with Invalid when any is inactive, and nothing is mutated.
C23_MissingOrInactiveRejected ==
  (calls = 1 /\ outcome[1] # "none") =>
    /\ HasMissing(callIn[1].items) => outcome[1] = "400_not_found" /\ Untouched
    /\ HasInactive(callIn[1].items) => outcome[1] = "400_not_available" /\ Untouched

\* what the checks of one line answer against the stock before the call
LineRefusal(l) ==
  LET p == product[l.product]
  IN  IF ~p.exists THEN "400_not_found"
      ELSE IF ~p.isActive THEN "400_not_available"
      ELSE IF Tracked(l.product) /\ stock0[l.product] < l.quantity THEN "400_insufficient_stock"
      ELSE "ok"

\* the refusal of the first line, in cart order, that has one
FirstRefusal(items) ==
  LET bad == {k \in 1..Len(items) : LineRefusal(items[k]) # "ok"}
  IN  IF bad = {} THEN "ok"
      ELSE LineRefusal(items[CHOOSE k \in bad : \A j \in bad : k <= j])

\* C23, amended: createOrder fails when any requested product is missing or inactive,
\* with the error of the first line, in cart order, that is missing (NotFound),
\* inactive (Invalid) or short of stock (InsufficientStock), and nothing is mutated.
C23_FirstFailingLineRejected ==
  (/\ calls = 1 /\ outcome[1] # "none"
   /\ HasMissing(callIn[1].items) \/ HasInactive(callIn[1].items)) =>
    /\ outcome[1] = FirstRefusal(callIn[1].items)
    /\ outcome[1] # "ok"
    /\ Untouched

\* a request with the coupon whose first line is orderable and whose second line names
\* the missing product was answered NotFound
C23_Witness ==
  /\ outcome[1] = "400_not_found"
  /\ callIn[1].couponCode = CouponCode
  /\ Len(callIn[1].items) = 2
  /\ LineRefusal(callIn[1].items[1]) = "ok"
  /\ ~product[callIn[1].items[2].product].exists
  /\ Untouched

\* the fields of an order that are fixed at creation
Frame(o) ==
  <<o.id, o.user, o.items, o.subtotal, o.taxAmount, o.shippingAmount, o.discountAmount,
    o.totalAmount, o.coupon>>

\* C24: the status and payment updates leave the owner, the lines, the amounts and the
\* applied coupon of every order as they were, and no step deletes an order.
C24_OrderFrame ==
  [][/\ Len(orders') >= Len(orders)
     /\ \A k \in 1..Len(orders) : Frame(orders'[k]) = Frame(orders[k])]_vars

\* the order went through an accepted status update and an accepted payment update
C24_Witness ==
  /\ Len(orders) = 1
  /\ Len(Accepted("status")) = 1 /\ Len(Accepted("payment")) = 1
  /\ orders[1].orderStatus = "shipped"
  /\ orders[1].paymentStatus = "refunded"
  /\ orders[1].totalAmount = 20

\* C25: validateCoupon is read-only: the step that answers a validation leaves the
\* coupon (usedCount and usageHistory included), every order and every product as they were.
C25_ValidateReadOnly ==
  [][Len(checks') > Len(checks) =>
       /\ coupon' = coupon
       /\ orders' = orders
       /\ product' = product]_vars

\* a validation was answered 200 before any order was placed, and the coupon still
\* shows no use
C25_Witness ==
  /\ Len(checks) = 1 /\ checks[1].resp = "200"
  /\ calls = 0
  /\ coupon.usedCount = 0 /\ coupon.usageHistory = << >>
  /\ orders = << >>

\* units of product p on the lines of all persisted orders
Sold(p) == SumSeq([k \in 1..Len(orders) |-> OrderQty(orders[k], p)])

\* C26: stock conservation. Once every createOrder request has completed, and none was
\* answered with a server error, the stock of a tracked product is its initial stock
\* minus the units of it on the persisted orders, and totalSales has grown by those units.
C26_StockConservation ==
  (Quiescent /\ \A c \in 1..calls : outcome[c] # "500") =>
    \A p \in ProductIds :
      Tracked(p) =>
        /\ product[p].stock = stock0[p] - Sold(p)
        /\ product[p].totalSales = Sold(p)

\* C27: all-or-nothing outcome of createOrder: every persisted order belongs to a call
\* that is still running or was answered 201; a call answered with a failure left no order.
C27_AllOrNothing ==
  \A k \in 1..Len(orders) : outcome[orders[k].call] \in {"none", "201"}

\* C28: with usageLimit set, usedCount never exceeds it and neither does the number of
\* persisted orders that applied the coupon.
C28_UsageLimit ==
  Truthy(coupon.usageLimit) =>
    /\ coupon.usedCount <= coupon.usageLimit
    /\ Cardinality(CouponOrders) <= coupon.usageLimit

\* the order-status events published to the owner of order id, in order of publication
StatusEvents(id) ==
  SelectSeq(events, LAMBDA e : e.event = "order_updated" /\ e.type = "order_status" /\ e.ref = id)

\* C29: every accepted order-status request published as oldStatus the status the order
\* held right before its write, so the (oldStatus, newStatus) pairs published for one
\* order form a chain: each oldStatus is the newStatus of the event before it.
C29_OldStatusChain ==
  /\ \A k \in 1..Len(Accepted("status")) : Accepted("status")[k].old = Accepted("status")[k].from
  /\ \A id \in 1..Len(orders) :
       \A k \in 2..Len(StatusEvents(id)) : StatusEvents(id)[k].a = StatusEvents(id)[k - 1].b

\* the rooms of the admin feeds
AdminFeeds == {"admin_analytics", "admin_orders"}

\* C30: topic isolation. A socket whose role is not admin is never in an admin feed and
\* was never sent an event of one (new order, status change, low stock), and the
\* per-user order updates a socket was sent are those of its own user id.
C30_TopicIsolation ==
  \A s \in Sockets :
    /\ SocketRole(s) # "admin" =>
         /\ member[s] \cap AdminFeeds = {}
         /\ \A k \in 1..Len(inbox[s]) :
              inbox[s][k].kind = "event" =>
                /\ inbox[s][k].room \notin AdminFeeds
                /\ inbox[s][k].name \notin {"analytics_update", "low_stock_alert", "new_order_update"}
    /\ \A k \in 1..Len(inbox[s]) :
         (inbox[s][k].kind = "event" /\ inbox[s][k].name = "order_updated") =>
           inbox[s][k].room = "user_orders_" \o SocketUser(s)

\* the customer asked for the admin order feed and was refused, subscribed to its own
\* order updates, and of the status change published to both rooms it was sent only its own
C30_Witness ==
  /\ Len(inbox[1]) = 4
  /\ inbox[1][1].name = "subscribe_admin_orders" /\ inbox[1][2].name = "error"
  /\ inbox[1][3].name = "subscribe_order_updates"
  /\ inbox[1][4].kind = "event" /\ inbox[1][4].name = "order_updated"
  /\ member[1] = {"user_orders_u1"}
  /\ \E k \in 1..Len(events) : events[k].room = "admin_orders" /\ events[k].type = "order_status"

====
